---- MODULE Spec2Model ----
(***************************************************************************)
(* filego: Split a file into numbered chunk files, Check a chunk           *)
(* directory against (file_size, total_chunks), Merge a chunk directory    *)
(* back into one file.  Model of package/src/{split,check,merge}.rs and    *)
(* package/src/async_std/merge.rs.                                         *)
(*                                                                         *)
(* File names are sequences of characters; a character is a number:        *)
(* 0..9 are the decimal digits, anything above 9 is a non-digit (10 is     *)
(* the letter x, 11 the sign +).                                           *)
(* File contents are sequences of bytes.  No operation inspects the value  *)
(* of a byte, so the files tried are those that tell every misplaced byte  *)
(* apart: files whose bytes are pairwise distinct (and distinct from the   *)
(* bytes of every other file and from the 0 a fresh buffer holds), and     *)
(* files of zeros.                                                         *)
(*                                                                         *)
(* Specifications: Spec (split, check, merge with every option set, and    *)
(* check / merge of directories of other origin), SpecAny (options may be  *)
(* left unset, out_file may exist), SpecCheck and SpecMerge (directories   *)
(* holding any names), SpecPrior (Split into a directory that holds        *)
(* something, and a Split that is terminated), SpecFault (Check of files   *)
(* that cannot be read), SpecAsync (the Merge of async_std), SpecConcurrent*)
(* (a Merge next to a running Split), SpecStopped (a Split stopped at any  *)
(* point), SpecInside (in_file inside out_dir), SpecOnto (out_file equal   *)
(* to in_dir).                                                             *)
(***************************************************************************)
EXTENDS Integers, Sequences, FiniteSets, TLC

(* ------------------------------ bounds -------------------------------- *)

\* longest input file given to Split
MaxLen == 5
\* chunk_size option of Split ranges over 0..MaxChunk
MaxChunk == 3
\* max_buffer_capacity option of Split and Merge ranges over 0..MaxCap
MaxCap == 2
\* a directory handed to Check/Merge holds names "0".."MaxOrd"
MaxOrd == 2
\* longest file in a directory handed to Check/Merge
MaxFileLen == 2

Min(a, b) == IF a < b THEN a ELSE b

(* --------------------- paths, names, file system ---------------------- *)

\* usize::to_string: decimal digits, most significant first, no padding
RECURSIVE to_string(_)
to_string(n) == IF n < 10 THEN <<n>> ELSE to_string(n \div 10) \o <<n % 10>>

IsDigit(c) == c \in 0..9

\* the digit loop of str::parse::<usize>: fails (-1) on any non-digit
RECURSIVE ParseDigits(_, _)
ParseDigits(s, acc) ==
    IF s = <<>> THEN acc
    ELSE IF ~IsDigit(Head(s)) THEN -1
    ELSE ParseDigits(Tail(s), acc * 10 + Head(s))

\* the character '+', which an integer literal may start with
Plus == 11

\* the whole of str::parse::<usize>: one leading '+' is accepted when digits
\* follow it, a '-' is not
parse_usize(s) ==
    IF s = <<>> THEN -1
    ELSE IF Head(s) = Plus
    THEN (IF Tail(s) = <<>> THEN -1 ELSE ParseDigits(Tail(s), 0))
    ELSE ParseDigits(s, 0)

\* a directory entry
NoEntry == [kind |-> "none", data |-> <<>>]
DirEntry == [kind |-> "dir", data |-> <<>>]
FileEntry(d) == [kind |-> "file", data |-> d]

\* a regular file that cannot be opened for reading (permission denied),
\* and a regular file whose metadata cannot be read through its path
LockedEntry(d) == [kind |-> "locked", data |-> d]
HiddenEntry(d) == [kind |-> "hidden", data |-> d]

\* Path::exists / Path::is_file / Path::is_dir on an entry of directory d:
\* each asks for the metadata of the path and answers false when that fails
Lookup(d, name) == IF name \in DOMAIN d THEN d[name] ELSE NoEntry
exists(e) == e.kind \notin {"none", "hidden"}
is_file(e) == e.kind \in {"file", "locked"}
is_dir(e) == e.kind = "dir"

\* the directory with entry name set to e
Put(d, name, e) == [n \in (DOMAIN d) \cup {name} |-> IF n = name THEN e ELSE d[n]]

(* ----------------------- std::io::BufWriter --------------------------- *)

\* BufWriter::write_all on writer state w = [file, wbuf] of capacity cap:
\* data shorter than the spare capacity is buffered; otherwise the buffer
\* is flushed when data does not fit, and data of at least cap bytes goes
\* straight to the file
write_all(w, data, cap) ==
    IF Len(data) < cap - Len(w.wbuf)
    THEN [w EXCEPT !.wbuf = w.wbuf \o data]
    ELSE LET f == IF Len(data) > cap - Len(w.wbuf)
                  THEN [file |-> w.file \o w.wbuf, wbuf |-> <<>>]
                  ELSE w
         IN IF Len(data) >= cap
            THEN [f EXCEPT !.file = f.file \o data]
            ELSE [f EXCEPT !.wbuf = f.wbuf \o data]

\* BufWriter::flush
flush(w) == [file |-> w.file \o w.wbuf, wbuf |-> <<>>]

\* WriteChunk without the flush: the bytes still in the BufWriter are not
\* in the file
WriteChunk_Unflushed(d, name, data, cap) ==
    IF is_dir(Lookup(d, name)) THEN [ok |-> FALSE, dir |-> d]
    ELSE LET w0 == [file |-> <<>>, wbuf |-> <<>>]
             w1 == write_all(w0, data, cap)
         IN [ok |-> TRUE, dir |-> Put(d, name, FileEntry(w1.file))]

\* WriteChunk without truncate: the bytes of an old file beyond the new
\* data stay
WriteChunk_NoTruncate(d, name, data, cap) ==
    IF is_dir(Lookup(d, name)) THEN [ok |-> FALSE, dir |-> d]
    ELSE LET old == Lookup(d, name).data
             w0 == [file |-> <<>>, wbuf |-> <<>>]
             w1 == flush(write_all(w0, data, cap))
         IN [ok |-> TRUE,
             dir |-> Put(d, name, FileEntry(w1.file \o
                        SubSeq(old, Len(w1.file) + 1, Len(old))))]

\* OpenOptions create+truncate+write on `name`, a BufWriter of capacity cap,
\* write_all(data), flush.  The open fails when `name` is a directory.
WriteChunk(d, name, data, cap) ==
    IF is_dir(Lookup(d, name)) THEN [ok |-> FALSE, dir |-> d]
    ELSE LET w0 == [file |-> <<>>, wbuf |-> <<>>]
             w1 == flush(write_all(w0, data, cap))
         IN [ok |-> TRUE, dir |-> Put(d, name, FileEntry(w1.file))]

(* ----------------------- std::io::BufReader --------------------------- *)

\* a File::read that may return 0 before the end of the file
InnerRead_ZeroEarly(len, pos, total) ==
    IF len = 0 \/ pos >= total THEN {0} ELSE 0..Min(len, total - pos)

\* File::read of up to len bytes at offset pos of a file of size total:
\* 0 at end of file or for an empty destination, else any positive count
\* that fits (a read may be short)
InnerRead(len, pos, total) ==
    IF len = 0 \/ pos >= total THEN {0} ELSE 1..Min(len, total - pos)

\* BufReader::read into a destination of len bytes.  r = [pos, fill]: pos is
\* the offset of the underlying file, fill the bytes buffered and not yet
\* handed out.  With an empty buffer and a destination at least as large as
\* the capacity the read bypasses the buffer; otherwise the buffer is
\* refilled when empty and min(fill, len) bytes are handed out.
\* Result: the set of [read, pos, fill] outcomes.
ReaderRead(r, len, cap, total) ==
    IF r.fill = 0 /\ len >= cap
    THEN {[read |-> n, pos |-> r.pos + n, fill |-> 0] :
              n \in InnerRead(len, r.pos, total)}
    ELSE IF r.fill = 0
    THEN {[read |-> Min(m, len), pos |-> r.pos + m, fill |-> m - Min(m, len)] :
              m \in InnerRead(cap, r.pos, total)}
    ELSE {[read |-> Min(r.fill, len), pos |-> r.pos,
           fill |-> r.fill - Min(r.fill, len)]}

(* ------------------------------ state --------------------------------- *)

VARIABLES
    in_file,    \* Split's input path: [kind, data]
    dirKind,    \* the chunk directory path: "none", "file" or "dir"
    dir,        \* the chunk directory: name -> entry
    out_file,   \* Merge's output path: [kind, data]
    caller,     \* what the caller does next
    split,      \* the Split call: options, locals, result
    check,      \* the Check call: arguments and result
    merge       \* the Merge call: options, locals, result

vars == <<in_file, dirKind, dir, out_file, caller, split, check, merge>>

(* ------------------------------ Split --------------------------------- *)

NoSplitResult == [ret |-> "none", kind |-> "", file_size |-> 0, total_chunks |-> 0]
SplitErr(k) == [ret |-> "Err", kind |-> k, file_size |-> 0, total_chunks |-> 0]
SplitResult(fs, tc) == [ret |-> "Ok", kind |-> "", file_size |-> fs, total_chunks |-> tc]

\* Split::new().chunk_size(cs).max_buffer_capacity(cap), before run
\* in_name: the file name of in_file when in_file is an entry of out_dir;
\* the empty name when it lies elsewhere
NewSplit(cs, cap) ==
    [pc |-> "new", in_file_set |-> FALSE, out_dir_set |-> FALSE,
     writing |-> FALSE, in_name |-> <<>>,
     chunk_size |-> cs, cap_max |-> cap, buffer_capacity |-> 0,
     file_size |-> 0, reader |-> [pos |-> 0, fill |-> 0], buffer |-> <<>>,
     total_chunks |-> 0, current |-> 0, result |-> NoSplitResult]

\* vec![0; n]
Zeros(n) == [i \in 1..n |-> 0]

\* reader.read(&mut buffer[..]): the bytes stored at the start of the
\* buffer whatever it holds already
ReadInto_AtStart(buf, current, src, off, n) ==
    [i \in 1..Len(buf) |-> IF i <= n THEN src[off + i] ELSE buf[i]]

\* reader.read(&mut buffer[current..]) storing bytes src[off+1..off+n]
ReadInto(buf, current, src, off, n) ==
    [i \in 1..Len(buf) |->
        IF current < i /\ i <= current + n THEN src[off + (i - current)] ELSE buf[i]]

\* buffer.copy_within(from..to, dest)
copy_within(buf, from, to, dest) ==
    [i \in 1..Len(buf) |->
        IF dest < i /\ i <= dest + (to - from) THEN buf[from + (i - dest)] ELSE buf[i]]

\* SplitPaths with the two error kinds of in_file exchanged
SplitPaths_KindsSwapped(inf, dk, in_set, out_set) ==
    IF ~in_set THEN [err |-> "InvalidInput", dirKind |-> dk]
    ELSE IF ~exists(inf) THEN [err |-> "InvalidInput", dirKind |-> dk]
    ELSE IF ~is_file(inf) THEN [err |-> "NotFound", dirKind |-> dk]
    ELSE IF ~out_set THEN [err |-> "InvalidInput", dirKind |-> dk]
    ELSE IF dk = "none" THEN [err |-> "", dirKind |-> "dir"]
    ELSE IF dk = "file" THEN [err |-> "InvalidInput", dirKind |-> dk]
    ELSE [err |-> "", dirKind |-> dk]

\* SplitPaths with out_dir created before in_file is looked at
SplitPaths_DirFirst(inf, dk, in_set, out_set) ==
    LET made == IF out_set /\ dk = "none" THEN "dir" ELSE dk
    IN IF ~in_set THEN [err |-> "InvalidInput", dirKind |-> made]
       ELSE IF ~exists(inf) THEN [err |-> "NotFound", dirKind |-> made]
       ELSE IF ~is_file(inf) THEN [err |-> "InvalidInput", dirKind |-> made]
       ELSE IF ~out_set THEN [err |-> "InvalidInput", dirKind |-> made]
       ELSE IF dk = "file" THEN [err |-> "InvalidInput", dirKind |-> made]
       ELSE [err |-> "", dirKind |-> made]

\* the path checks of Split::run for options in_file (set or not, entry
\* inf) and out_dir (set or not, of kind dk): the error returned, if any,
\* and the kind of out_dir afterwards (create_dir_all when it is absent)
SplitPaths(inf, dk, in_set, out_set) ==
    IF ~in_set THEN [err |-> "InvalidInput", dirKind |-> dk]
    ELSE IF ~exists(inf) THEN [err |-> "NotFound", dirKind |-> dk]
    ELSE IF ~is_file(inf) THEN [err |-> "InvalidInput", dirKind |-> dk]
    ELSE IF ~out_set THEN [err |-> "InvalidInput", dirKind |-> dk]
    ELSE IF dk = "none" THEN [err |-> "", dirKind |-> "dir"]
    ELSE IF dk = "file" THEN [err |-> "InvalidInput", dirKind |-> dk]
    ELSE [err |-> "", dirKind |-> dk]

\* Split::run up to the loop, for a Split whose in_file / out_dir options
\* are set (TRUE) or left unset: path checks, create_dir_all, open, locals
SplitBegin(in_set, out_set) ==
    /\ caller = "split"
    /\ split.pc = "new"
    /\ LET p == SplitPaths(in_file, dirKind, in_set, out_set)
           s == [split EXCEPT !.in_file_set = in_set, !.out_dir_set = out_set]
       IN IF p.err # ""
          THEN /\ split' = [s EXCEPT !.pc = "done", !.result = SplitErr(p.err)]
               /\ caller' = "done"
               /\ dirKind' = p.dirKind
          ELSE /\ dirKind' = p.dirKind
               /\ split' = [s EXCEPT
                      !.pc = "loop",
                      !.buffer_capacity = Min(split.chunk_size, split.cap_max),
                      !.file_size = Len(in_file.data),
                      !.reader = [pos |-> 0, fill |-> 0],
                      !.buffer = Zeros(split.chunk_size),
                      !.total_chunks = 0,
                      !.current = 0]
               /\ UNCHANGED caller
    /\ UNCHANGED <<in_file, dir, out_file, check, merge>>

\* Split::new().in_file(..).out_dir(..).chunk_size(..).run(), entered
SplitStart == SplitBegin(TRUE, TRUE)

\* the same with either path option possibly left unset
SplitStartAny == \E in_set \in BOOLEAN, out_set \in BOOLEAN : SplitBegin(in_set, out_set)

\* SplitPass without the write of the remaining data at end of input
SplitPass_DropsResidual(s, d, src, o) ==
    LET name == to_string(s.total_chunks)
        off == s.reader.pos - s.reader.fill
    IN IF o.read = 0
       THEN <<[s EXCEPT !.pc = "done",
                        !.result = SplitResult(s.file_size, s.total_chunks)], d>>
       ELSE LET buf == ReadInto(s.buffer, s.current, src, off, o.read)
                cur == s.current + o.read
                s1 == [s EXCEPT !.reader = [pos |-> o.pos, fill |-> o.fill],
                                !.buffer = buf, !.current = cur]
            IN IF cur >= s.chunk_size
               THEN LET w == WriteChunk(d, name, SubSeq(buf, 1, s.chunk_size),
                                        s.buffer_capacity)
                    IN IF w.ok
                       THEN <<[s1 EXCEPT
                                 !.total_chunks = s.total_chunks + 1,
                                 !.buffer = copy_within(buf, s.chunk_size, cur, 0),
                                 !.current = cur - s.chunk_size],
                              w.dir>>
                       ELSE <<[s1 EXCEPT !.pc = "done",
                                         !.result = SplitErr("IsADirectory")], d>>
               ELSE <<s1, d>>

\* the state of Split after one pass of the loop that got outcome o from
\* reader.read; the second component is the directory
SplitPass(s, d, src, o) ==
    LET name == to_string(s.total_chunks)
        off == s.reader.pos - s.reader.fill
    IN IF o.read = 0
       THEN IF s.current > 0
            THEN LET w == WriteChunk(d, name, SubSeq(s.buffer, 1, s.current),
                                     s.buffer_capacity)
                 IN IF w.ok
                    THEN <<[s EXCEPT !.pc = "done",
                                     !.total_chunks = s.total_chunks + 1,
                                     !.result = SplitResult(s.file_size, s.total_chunks + 1)],
                           w.dir>>
                    ELSE <<[s EXCEPT !.pc = "done", !.result = SplitErr("IsADirectory")], d>>
            ELSE <<[s EXCEPT !.pc = "done",
                             !.result = SplitResult(s.file_size, s.total_chunks)], d>>
       ELSE LET buf == ReadInto(s.buffer, s.current, src, off, o.read)
                cur == s.current + o.read
                s1 == [s EXCEPT !.reader = [pos |-> o.pos, fill |-> o.fill],
                                !.buffer = buf, !.current = cur]
            IN IF cur >= s.chunk_size
               THEN LET w == WriteChunk(d, name, SubSeq(buf, 1, s.chunk_size),
                                        s.buffer_capacity)
                    IN IF w.ok
                       THEN <<[s1 EXCEPT
                                 !.total_chunks = s.total_chunks + 1,
                                 !.buffer = copy_within(buf, s.chunk_size, cur, 0),
                                 !.current = cur - s.chunk_size],
                              w.dir>>
                       ELSE <<[s1 EXCEPT !.pc = "done",
                                         !.result = SplitErr("IsADirectory")], d>>
               ELSE <<s1, d>>

\* one pass of Split's loop; the pass that reads 0 bytes returns
SplitLoop ==
    /\ split.pc = "loop"
    /\ \E o \in ReaderRead(split.reader, split.chunk_size - split.current,
                            split.buffer_capacity, Len(in_file.data)) :
          LET p == SplitPass(split, dir, in_file.data, o)
          IN /\ split' = p[1]
             /\ dir' = p[2]
             /\ caller' = IF p[1].pc = "done"
                          THEN (IF p[1].result.ret = "Ok" THEN "idle" ELSE "done")
                          ELSE caller
    /\ UNCHANGED <<in_file, dirKind, out_file, check, merge>>

\* one pass of Split's loop when in_file is the entry in_name of out_dir:
\* the pass reads the file as it is now, and the chunk file it creates or
\* truncates may be that same file
SplitLoopInside ==
    /\ split.pc = "loop"
    /\ split.in_name # <<>>
    /\ \E o \in ReaderRead(split.reader, split.chunk_size - split.current,
                            split.buffer_capacity, Len(dir[split.in_name].data)) :
          LET p == SplitPass(split, dir, dir[split.in_name].data, o)
          IN /\ split' = p[1]
             /\ dir' = p[2]
             /\ in_file' = p[2][split.in_name]
             /\ caller' = IF p[1].pc = "done"
                          THEN (IF p[1].result.ret = "Ok" THEN "idle" ELSE "done")
                          ELSE caller
    /\ UNCHANGED <<dirKind, out_file, check, merge>>

\* the process running Split is terminated inside the loop: between two
\* passes, or in a pass while it writes chunk file total_chunks, which is
\* then left with fewer bytes than the pass writes (none, after the
\* truncating open).  Another process goes on with the directory.
SplitAbort ==
    /\ caller = "split"
    /\ split.pc = "loop"
    /\ \/ /\ split' = [split EXCEPT !.pc = "aborted"]
          /\ UNCHANGED dir
       \/ \E o \in ReaderRead(split.reader, split.chunk_size - split.current,
                               split.buffer_capacity, Len(in_file.data)) :
             LET p == SplitPass(split, dir, in_file.data, o)
                 name == to_string(split.total_chunks)
             IN /\ p[1].total_chunks = split.total_chunks + 1
                /\ \E k \in 0..(Len(p[2][name].data) - 1) :
                      dir' = Put(dir, name, FileEntry(SubSeq(p[2][name].data, 1, k)))
                /\ split' = [split EXCEPT !.pc = "aborted", !.writing = TRUE]
    /\ caller' = "idle"
    /\ UNCHANGED <<in_file, dirKind, out_file, check, merge>>

\* what run returns when it completes on an input of l bytes with
\* chunk_size cs: the size of the input and the number of chunks written
SplitReturns(l, cs) ==
    SplitResult(l, IF cs = 0 THEN 0 ELSE (l + cs - 1) \div cs)

(* ------------------------------ Check --------------------------------- *)

\* CheckResultErrorType::as_code
as_code(t) == IF t = "Missing" THEN "missing" ELSE IF t = "Size" THEN "size" ELSE ""

\* Option<CheckResultError>
NoCheckError == [some |-> FALSE, error_type |-> "", missing_some |-> FALSE, missing |-> <<>>]
MissingError(m) == [some |-> TRUE, error_type |-> "Missing", missing_some |-> TRUE, missing |-> m]
SizeError == [some |-> TRUE, error_type |-> "Size", missing_some |-> FALSE, missing |-> <<>>]

NoCheckResult == [ret |-> "none", kind |-> "", success |-> FALSE, error |-> NoCheckError]
CheckErr(k) == [ret |-> "Err", kind |-> k, success |-> FALSE, error |-> NoCheckError]
CheckResult(ok, e) == [ret |-> "Ok", kind |-> "", success |-> ok, error |-> e]

NewCheck ==
    [pc |-> "new", in_dir_set |-> FALSE, file_size_set |-> FALSE,
     total_chunks_set |-> FALSE, file_size |-> 0, total_chunks |-> 0,
     result |-> NoCheckResult]

\* CheckScan over the inclusive range 0..=total_chunks
RECURSIVE CheckScan_Inclusive(_, _, _, _, _)
CheckScan_Inclusive(d, i, total_chunks, actual_size, missing) ==
    IF i > total_chunks THEN [err |-> "", actual_size |-> actual_size, missing |-> missing]
    ELSE LET target_file == Lookup(d, to_string(i))
         IN IF ~exists(target_file) \/ ~is_file(target_file)
            THEN CheckScan_Inclusive(d, i + 1, total_chunks, actual_size,
                                     Append(missing, i))
            ELSE IF target_file.kind = "locked"
            THEN [err |-> "PermissionDenied", actual_size |-> actual_size,
                  missing |-> missing]
            ELSE CheckScan_Inclusive(d, i + 1, total_chunks,
                                     actual_size + Len(target_file.data), missing)

\* CheckScan leaving the loop at the first missing chunk
RECURSIVE CheckScan_StopsAtGap(_, _, _, _, _)
CheckScan_StopsAtGap(d, i, total_chunks, actual_size, missing) ==
    IF i >= total_chunks THEN [err |-> "", actual_size |-> actual_size, missing |-> missing]
    ELSE LET target_file == Lookup(d, to_string(i))
         IN IF ~exists(target_file) \/ ~is_file(target_file)
            THEN [err |-> "", actual_size |-> actual_size, missing |-> Append(missing, i)]
            ELSE IF target_file.kind = "locked"
            THEN [err |-> "PermissionDenied", actual_size |-> actual_size,
                  missing |-> missing]
            ELSE CheckScan_StopsAtGap(d, i + 1, total_chunks,
                                      actual_size + Len(target_file.data), missing)

\* the loop of Check::run over i..total_chunks-1: [err, actual_size,
\* missing]; err is the error of an open that failed, which ends the loop
RECURSIVE CheckScan(_, _, _, _, _)
CheckScan(d, i, total_chunks, actual_size, missing) ==
    IF i >= total_chunks THEN [err |-> "", actual_size |-> actual_size, missing |-> missing]
    ELSE LET target_file == Lookup(d, to_string(i))
         IN IF ~exists(target_file) \/ ~is_file(target_file)
            THEN CheckScan(d, i + 1, total_chunks, actual_size, Append(missing, i))
            ELSE IF target_file.kind = "locked"
            THEN [err |-> "PermissionDenied", actual_size |-> actual_size,
                  missing |-> missing]
            ELSE CheckScan(d, i + 1, total_chunks,
                           actual_size + Len(target_file.data), missing)

\* CheckRun testing the size before the missing list
CheckRun_SizeFirst(dk, d, file_size, total_chunks) ==
    IF dk = "none" THEN CheckErr("NotFound")
    ELSE IF dk # "dir" THEN CheckErr("InvalidInput")
    ELSE LET sc == CheckScan(d, 0, total_chunks, 0, <<>>)
         IN IF sc.err # "" THEN CheckErr(sc.err)
            ELSE IF sc.actual_size # file_size
            THEN CheckResult(FALSE, SizeError)
            ELSE IF sc.missing # <<>>
            THEN CheckResult(FALSE, MissingError(sc.missing))
            ELSE CheckResult(TRUE, NoCheckError)

\* CheckRun reporting a size error only when the chunks are too short
CheckRun_SizeLess(dk, d, file_size, total_chunks) ==
    IF dk = "none" THEN CheckErr("NotFound")
    ELSE IF dk # "dir" THEN CheckErr("InvalidInput")
    ELSE LET sc == CheckScan(d, 0, total_chunks, 0, <<>>)
         IN IF sc.err # "" THEN CheckErr(sc.err)
            ELSE IF sc.missing # <<>>
            THEN CheckResult(FALSE, MissingError(sc.missing))
            ELSE IF sc.actual_size < file_size
            THEN CheckResult(FALSE, SizeError)
            ELSE CheckResult(TRUE, NoCheckError)

\* CheckRun handing the (empty) missing list out with a size error
CheckRun_SizeWithList(dk, d, file_size, total_chunks) ==
    IF dk = "none" THEN CheckErr("NotFound")
    ELSE IF dk # "dir" THEN CheckErr("InvalidInput")
    ELSE LET sc == CheckScan(d, 0, total_chunks, 0, <<>>)
         IN IF sc.err # "" THEN CheckErr(sc.err)
            ELSE IF sc.missing # <<>>
            THEN CheckResult(FALSE, MissingError(sc.missing))
            ELSE IF sc.actual_size # file_size
            THEN CheckResult(FALSE, [SizeError EXCEPT !.missing_some = TRUE,
                                                      !.missing = sc.missing])
            ELSE CheckResult(TRUE, NoCheckError)

\* CheckRun reporting a size error only when the chunks are too long
CheckRun_SizeMore(dk, d, file_size, total_chunks) ==
    IF dk = "none" THEN CheckErr("NotFound")
    ELSE IF dk # "dir" THEN CheckErr("InvalidInput")
    ELSE LET sc == CheckScan(d, 0, total_chunks, 0, <<>>)
         IN IF sc.err # "" THEN CheckErr(sc.err)
            ELSE IF sc.missing # <<>>
            THEN CheckResult(FALSE, MissingError(sc.missing))
            ELSE IF sc.actual_size > file_size
            THEN CheckResult(FALSE, SizeError)
            ELSE CheckResult(TRUE, NoCheckError)

\* Check::run on in_dir of kind dk holding d
CheckRun(dk, d, file_size, total_chunks) ==
    IF dk = "none" THEN CheckErr("NotFound")
    ELSE IF dk # "dir" THEN CheckErr("InvalidInput")
    ELSE LET sc == CheckScan(d, 0, total_chunks, 0, <<>>)
         IN IF sc.err # "" THEN CheckErr(sc.err)
            ELSE IF sc.missing # <<>>
            THEN CheckResult(FALSE, MissingError(sc.missing))
            ELSE IF sc.actual_size # file_size
            THEN CheckResult(FALSE, SizeError)
            ELSE CheckResult(TRUE, NoCheckError)

\* the file_size arguments a caller passes to Check
FileSizeArgs == 0..((MaxOrd + 1) * MaxFileLen + 1)
\* the total_chunks arguments a caller passes to Check
TotalChunksArgs == 0..(MaxOrd + 2)

\* what the caller passes to Check: after a Split, the returned values or
\* one more than them; after a Split that was terminated, the values it
\* would have returned; for a directory of other origin, any values
CheckArgs ==
    IF split.pc = "aborted"
    THEN LET r == SplitReturns(Len(in_file.data), split.chunk_size)
         IN {<<r.file_size, r.total_chunks>>}
    ELSE IF split.result.ret = "Ok"
    THEN {split.result.file_size, split.result.file_size + 1}
            \X {split.result.total_chunks, split.result.total_chunks + 1}
    ELSE FileSizeArgs \X TotalChunksArgs

\* Check::run for options in_dir, file_size and total_chunks each set or
\* left unset (o.in_dir_set, o.file_size_set, o.total_chunks_set)
CheckCall(dk, d, o) ==
    IF ~o.in_dir_set THEN CheckErr("InvalidInput")
    ELSE IF dk = "none" THEN CheckErr("NotFound")
    ELSE IF dk # "dir" THEN CheckErr("InvalidInput")
    ELSE IF ~o.file_size_set THEN CheckErr("InvalidInput")
    ELSE IF ~o.total_chunks_set THEN CheckErr("InvalidInput")
    ELSE CheckRun(dk, d, o.file_size, o.total_chunks)

\* the options of a Check with all three set, to a \in CheckArgs
AllSet(a) ==
    [in_dir_set |-> TRUE, file_size_set |-> TRUE, total_chunks_set |-> TRUE,
     file_size |-> a[1], total_chunks |-> a[2]]

\* the options of a Check that leaves at least one of them unset
SomeUnset ==
    {[in_dir_set |-> b[1], file_size_set |-> b[2], total_chunks_set |-> b[3],
      file_size |-> 0, total_chunks |-> 0] :
        b \in (BOOLEAN \X BOOLEAN \X BOOLEAN) \ {<<TRUE, TRUE, TRUE>>}}

\* a Check built with options o, run
CheckWith(o) ==
    /\ caller = "idle"
    /\ check.pc = "new"
    /\ merge.pc = "new"
    /\ check' = [pc |-> "done", in_dir_set |-> o.in_dir_set,
                 file_size_set |-> o.file_size_set,
                 total_chunks_set |-> o.total_chunks_set,
                 file_size |-> o.file_size, total_chunks |-> o.total_chunks,
                 result |-> CheckCall(dirKind, dir, o)]
    /\ UNCHANGED <<in_file, dirKind, dir, out_file, caller, split, merge>>

\* Check::new().in_dir(dir).file_size(a[1]).total_chunks(a[2]).run()
Check == \E a \in CheckArgs : CheckWith(AllSet(a))

\* the same with any of the three options possibly left unset
CheckAny == \E o \in {AllSet(a) : a \in CheckArgs} \cup SomeUnset : CheckWith(o)

(* ------------------------------ Merge --------------------------------- *)

NoMergeResult == [ret |-> "none", kind |-> ""]

MergeErr(k) == [ret |-> "Err", kind |-> k]

\* Merge::new() before run.  existed is out_file.exists() as run found it.
\* overlap: the Merge was entered while a Split was in its loop.
\* runs and prev are the caller's: how many times it has called Merge, and
\* the out_file content its previous call left
NewMerge ==
    [pc |-> "new", in_dir_set |-> FALSE, out_file_set |-> FALSE,
     cap_max |-> 0, buffer_capacity |-> 0, wbuf |-> <<>>,
     entries |-> <<>>, idx |-> 0, reader |-> [pos |-> 0, fill |-> 0],
     existed |-> FALSE, result |-> NoMergeResult, runs |-> 0, prev |-> <<>>,
     overlap |-> FALSE]

\* read_dir(in_dir) filtered by is_file: the names of the regular files
RegularFiles(d) == {n \in DOMAIN d : is_file(d[n])}

\* the entries left in the order read_dir gave them, which is any order
RECURSIVE SortedByKey_Unsorted(_)
SortedByKey_Unsorted(S) ==
    IF S = {} THEN {<<>>}
    ELSE UNION {{<<n>> \o t : t \in SortedByKey_Unsorted(S \ {n})} : n \in S}

\* the orders sort_by_key (a stable sort) can leave the names of S in:
\* ascending by parsed name, names of equal key in the order read_dir
\* gave them, which is any order
RECURSIVE SortedByKey(_)
SortedByKey(S) ==
    IF S = {} THEN {<<>>}
    ELSE UNION {{<<n>> \o t : t \in SortedByKey(S \ {n})} :
                   n \in {m \in S : \A k \in S : parse_usize(m) <= parse_usize(k)}}

\* MergePaths with the old out_file removed before in_dir is sampled
MergePaths_RemoveFirst(dk, d, o, in_set, out_set) ==
    IF ~in_set THEN [err |-> "InvalidInput", out_file |-> o]
    ELSE IF dk = "none" THEN [err |-> "NotFound", out_file |-> o]
    ELSE IF dk # "dir" THEN [err |-> "InvalidInput", out_file |-> o]
    ELSE IF ~out_set THEN [err |-> "InvalidInput", out_file |-> o]
    ELSE IF RegularFiles(d) = {} THEN [err |-> "NotFound", out_file |-> NoEntry]
    ELSE [err |-> "", out_file |-> FileEntry(<<>>)]

\* MergePaths with out_file left as it is until the names are parsed
MergePaths_KeepsOutFile(dk, d, o, in_set, out_set) ==
    IF ~in_set THEN [err |-> "InvalidInput", out_file |-> o]
    ELSE IF dk = "none" THEN [err |-> "NotFound", out_file |-> o]
    ELSE IF dk # "dir" THEN [err |-> "InvalidInput", out_file |-> o]
    ELSE IF ~out_set THEN [err |-> "InvalidInput", out_file |-> o]
    ELSE IF RegularFiles(d) = {} THEN [err |-> "NotFound", out_file |-> o]
    ELSE [err |-> "", out_file |-> o]

\* Merge::run up to the writer, for in_dir of kind dk holding d, out_file
\* entry o, and options in_dir / out_file set or left unset: the error
\* returned, if any, and out_file afterwards.  Without an error the old
\* out_file (file or directory) is removed and an empty file created.
MergePaths(dk, d, o, in_set, out_set) ==
    IF ~in_set THEN [err |-> "InvalidInput", out_file |-> o]
    ELSE IF dk = "none" THEN [err |-> "NotFound", out_file |-> o]
    ELSE IF dk # "dir" THEN [err |-> "InvalidInput", out_file |-> o]
    ELSE IF ~out_set THEN [err |-> "InvalidInput", out_file |-> o]
    ELSE IF RegularFiles(d) = {} THEN [err |-> "NotFound", out_file |-> o]
    ELSE LET removed == IF exists(o) THEN NoEntry ELSE o
         IN [err |-> "",
             out_file |-> IF is_file(removed) THEN removed ELSE FileEntry(<<>>)]

\* the max_buffer_capacity values of a Merge: any, or that of the caller's
\* previous call when it repeats the call
MergeCaps == IF caller = "again" THEN {merge.cap_max} ELSE 0..MaxCap

\* Merge::run up to the writer, for a Merge whose in_dir / out_file options
\* are set (TRUE) or left unset: path checks, the sampled file size, the
\* removal of out_file and its creation.  The caller merges a directory it
\* has not checked or one that passed Check.
MergeBegin(in_set, out_set) ==
    /\ caller \in {"idle", "again"}
    /\ merge.pc = "new"
    /\ check.pc = "new" \/ check.result.success
    /\ \E cap \in MergeCaps :
          LET p == MergePaths(dirKind, dir, out_file, in_set, out_set)
              m == [merge EXCEPT !.in_dir_set = in_set, !.out_file_set = out_set,
                                 !.cap_max = cap, !.runs = merge.runs + 1]
          IN IF p.err # ""
             THEN /\ merge' = [m EXCEPT !.pc = "done", !.result = MergeErr(p.err)]
                  /\ caller' = "done"
                  /\ out_file' = p.out_file
             ELSE \E file \in RegularFiles(dir) :
                    LET input_size == Len(dir[file].data)
                    IN /\ merge' = [m EXCEPT !.pc = "list",
                                        !.buffer_capacity = Min(input_size, cap),
                                        !.existed = exists(out_file),
                                        !.wbuf = <<>>]
                       /\ out_file' = p.out_file
                       /\ caller' = "idle"
    /\ UNCHANGED <<in_file, dirKind, dir, check, split>>

\* Merge::new().in_dir(..).out_file(..).max_buffer_capacity(..).run(), entered
MergeStart == MergeBegin(TRUE, TRUE)

\* the same with either path option possibly left unset
MergeStartAny == \E in_set \in BOOLEAN, out_set \in BOOLEAN : MergeBegin(in_set, out_set)

\* a second process enters Merge::run on the directory while Split is in
\* its loop: nothing locks the directory, so the checks and the sampling
\* see the chunk files written so far
MergeStartDuringSplit ==
    /\ split.pc = "loop"
    /\ merge.pc = "new"
    /\ \E cap \in 0..MaxCap :
          LET p == MergePaths(dirKind, dir, out_file, TRUE, TRUE)
              m == [merge EXCEPT !.in_dir_set = TRUE, !.out_file_set = TRUE,
                                 !.cap_max = cap, !.runs = merge.runs + 1,
                                 !.overlap = TRUE]
          IN IF p.err # ""
             THEN /\ merge' = [m EXCEPT !.pc = "done", !.result = MergeErr(p.err)]
                  /\ out_file' = p.out_file
             ELSE \E file \in RegularFiles(dir) :
                    LET input_size == Len(dir[file].data)
                    IN /\ merge' = [m EXCEPT !.pc = "list",
                                        !.buffer_capacity = Min(input_size, cap),
                                        !.existed = exists(out_file),
                                        !.wbuf = <<>>]
                       /\ out_file' = p.out_file
    /\ UNCHANGED <<in_file, dirKind, dir, caller, check, split>>

\* Merge::run when the out_file option is the path of in_dir itself, so
\* that out_file holds what dirKind and dir say.  After the checks and the
\* sampling, out_file exists and is a directory: remove_dir_all removes
\* in_dir with all it holds, the open creates an empty regular file at the
\* path, and read_dir(in_dir) of that file fails.
MergeOntoInDir ==
    /\ caller = "idle"
    /\ merge.pc = "new"
    /\ out_file.kind = dirKind
    /\ \E cap \in 0..MaxCap :
          LET p == MergePaths(dirKind, dir, out_file, TRUE, TRUE)
              m == [merge EXCEPT !.in_dir_set = TRUE, !.out_file_set = TRUE,
                                 !.cap_max = cap, !.runs = merge.runs + 1]
          IN IF p.err # ""
             THEN /\ merge' = [m EXCEPT !.pc = "done", !.result = MergeErr(p.err)]
                  /\ UNCHANGED <<dirKind, dir, out_file>>
             ELSE \E file \in RegularFiles(dir) :
                    /\ merge' = [m EXCEPT !.pc = "done",
                                     !.buffer_capacity =
                                         Min(Len(dir[file].data), cap),
                                     !.existed = TRUE,
                                     !.result = MergeErr("NotADirectory")]
                    /\ dirKind' = "file"
                    /\ dir' = <<>>
                    /\ out_file' = p.out_file
    /\ caller' = "done"
    /\ UNCHANGED <<in_file, check, split>>

\* the caller repeats a Merge that succeeded, on the unchanged in_dir and
\* with the same options, remembering what out_file holds
MergeAgain ==
    /\ caller = "done"
    /\ merge.pc = "done"
    /\ merge.result.ret = "Ok"
    /\ merge.runs = 1
    /\ merge' = [NewMerge EXCEPT !.cap_max = merge.cap_max, !.runs = 1,
                                 !.prev = out_file.data]
    /\ caller' = "again"
    /\ UNCHANGED <<in_file, dirKind, dir, out_file, check, split>>

\* async_std MergeAsyncExt::run_async up to the writer, when the first
\* entry read_dir yields is `first` (a name of d; irrelevant for an empty
\* d): the checks of MergePaths, except that only that first entry is
\* looked at to sample a file size, and a first entry that is not a
\* regular file is the "No files found" error
MergePathsAsyncStd(dk, d, o, in_set, out_set, first) ==
    IF ~in_set THEN [err |-> "InvalidInput", out_file |-> o]
    ELSE IF dk = "none" THEN [err |-> "NotFound", out_file |-> o]
    ELSE IF dk # "dir" THEN [err |-> "InvalidInput", out_file |-> o]
    ELSE IF ~out_set THEN [err |-> "InvalidInput", out_file |-> o]
    ELSE IF DOMAIN d = {} THEN [err |-> "NotFound", out_file |-> o]
    ELSE IF ~is_file(d[first]) THEN [err |-> "NotFound", out_file |-> o]
    ELSE LET removed == IF exists(o) THEN NoEntry ELSE o
         IN [err |-> "",
             out_file |-> IF is_file(removed) THEN removed ELSE FileEntry(<<>>)]

\* Merge::new().in_dir(..).out_file(..).max_buffer_capacity(..).run_async()
\* of async_std, entered; the rest of run_async is the code of run
MergeStartAsyncStd ==
    /\ caller = "idle"
    /\ merge.pc = "new"
    /\ \E cap \in 0..MaxCap, first \in (DOMAIN dir) \cup {<<>>} :
          LET p == MergePathsAsyncStd(dirKind, dir, out_file, TRUE, TRUE, first)
              m == [merge EXCEPT !.in_dir_set = TRUE, !.out_file_set = TRUE,
                                 !.cap_max = cap, !.runs = merge.runs + 1]
          IN /\ first = <<>> <=> DOMAIN dir = {}
             /\ IF p.err # ""
                THEN /\ merge' = [m EXCEPT !.pc = "done", !.result = MergeErr(p.err)]
                     /\ caller' = "done"
                     /\ out_file' = p.out_file
                ELSE /\ merge' = [m EXCEPT !.pc = "list",
                                      !.buffer_capacity =
                                          Min(Len(dir[first].data), cap),
                                      !.existed = exists(out_file),
                                      !.wbuf = <<>>]
                     /\ out_file' = p.out_file
                     /\ caller' = "idle"
    /\ UNCHANGED <<in_file, dirKind, dir, check, split>>

\* the entries of in_dir, sorted by parsed name; parsing a name that is not
\* a number panics (sort_by_key calls the key only when there are at least
\* two entries)
MergeList ==
    /\ merge.pc = "list"
    /\ LET files == RegularFiles(dir)
       IN IF Cardinality(files) >= 2 /\ \E n \in files : parse_usize(n) < 0
          THEN /\ merge' = [merge EXCEPT !.pc = "done",
                                         !.result = [ret |-> "Panic", kind |-> ""]]
               /\ caller' = "done"
          ELSE /\ \E es \in SortedByKey(files) :
                    merge' = [merge EXCEPT !.pc = "copy", !.entries = es, !.idx = 1,
                                           !.reader = [pos |-> 0, fill |-> 0]]
               /\ UNCHANGED caller
    /\ UNCHANGED <<in_file, dirKind, dir, out_file, check, split>>

\* one reader.read of the copy loop: 0 bytes ends the entry, otherwise the
\* bytes read go to the writer
MergeCopy ==
    /\ merge.pc = "copy"
    /\ merge.idx <= Len(merge.entries)
    /\ LET data == Lookup(dir, merge.entries[merge.idx]).data
       IN \E o \in ReaderRead(merge.reader, merge.buffer_capacity,
                               merge.buffer_capacity, Len(data)) :
            IF o.read = 0
            THEN /\ merge' = [merge EXCEPT !.idx = merge.idx + 1,
                                           !.reader = [pos |-> 0, fill |-> 0]]
                 /\ UNCHANGED out_file
            ELSE LET off == merge.reader.pos - merge.reader.fill
                     w == write_all([file |-> out_file.data, wbuf |-> merge.wbuf],
                                    SubSeq(data, off + 1, off + o.read),
                                    merge.buffer_capacity)
                 IN /\ merge' = [merge EXCEPT !.reader = [pos |-> o.pos, fill |-> o.fill],
                                              !.wbuf = w.wbuf]
                    /\ out_file' = [out_file EXCEPT !.data = w.file]
    /\ UNCHANGED <<in_file, dirKind, dir, caller, check, split>>

\* writer.flush() and Ok(true)
MergeFlush ==
    /\ merge.pc = "copy"
    /\ merge.idx > Len(merge.entries)
    /\ LET w == flush([file |-> out_file.data, wbuf |-> merge.wbuf])
       IN /\ out_file' = [out_file EXCEPT !.data = w.file]
          /\ merge' = [merge EXCEPT !.pc = "done", !.wbuf = w.wbuf,
                                    !.result = [ret |-> "Ok", kind |-> ""]]
    /\ caller' = "done"
    /\ UNCHANGED <<in_file, dirKind, dir, check, split>>

(* ------------------------- initial states ----------------------------- *)

\* a file of n distinct bytes 1..n
Ramp(n) == [i \in 1..n |-> i]

\* the input files: of 0..MaxLen bytes, all distinct or all zero
InputFiles == {Ramp(n) : n \in 0..MaxLen} \cup {Zeros(n) : n \in 0..MaxLen}

\* the content of a file named k of n bytes in a directory of other origin:
\* distinct bytes, found in no other file
ChunkData(k, n) == [i \in 1..n |-> 16 * (k + 1) + i]

\* a directory of other origin: every name "0".."MaxOrd" is absent, a
\* subdirectory or a regular file of at most MaxFileLen bytes
DirStates ==
    {[n \in {to_string(k) : k \in {j \in 0..MaxOrd : kind[j] # "none"}} |->
         IF kind[parse_usize(n)] = "dir" THEN DirEntry
         ELSE FileEntry(ChunkData(parse_usize(n), len[parse_usize(n)]))] :
     kind \in [0..MaxOrd -> {"none", "dir", "file"}],
     len \in [0..MaxOrd -> 0..MaxFileLen]}

\* the caller splits a file into a directory that is absent, empty or a
\* regular file, then checks and merges
InitSplit ==
    /\ in_file \in {NoEntry, DirEntry} \cup {FileEntry(x) : x \in InputFiles}
    /\ dirKind \in {"none", "dir", "file"}
    /\ dir = <<>>
    /\ caller = "split"
    /\ \E cs \in 0..MaxChunk, cap \in 0..MaxCap : split = NewSplit(cs, cap)

\* the caller checks or merges a directory it got from elsewhere
InitDir ==
    /\ in_file = NoEntry
    /\ \/ dirKind = "dir" /\ dir \in DirStates
       \/ dirKind \in {"none", "file"} /\ dir = <<>>
    /\ caller = "idle"
    /\ split = NewSplit(0, 0)

Init ==
    /\ InitSplit \/ InitDir
    /\ out_file = NoEntry
    /\ check = NewCheck
    /\ merge = NewMerge

Next ==
    \/ SplitStart
    \/ SplitLoop
    \/ Check
    \/ MergeStart
    \/ MergeList
    \/ MergeCopy
    \/ MergeFlush

Spec == Init /\ [][Next]_vars

(* ------------- callers of any kind, directories of any content -------- *)

\* the file names "x" (not a number) and "10"
NameX == <<10>>
NameTen == to_string(10)

\* entries besides the names "0".."MaxOrd": each of "x" and "10" is absent
\* or a regular file of one byte
ExtraStates ==
    {[n \in S |-> FileEntry(ChunkData(10 + Len(n), 1))] : S \in SUBSET {NameX, NameTen}}

\* a directory of other origin that may also hold the names "x" and "10"
AnyDirs == {d @@ e : d \in DirStates, e \in ExtraStates}

\* bytes found in no input file and no chunk file
StaleData(n) == [i \in 1..n |-> 200 + i]

\* what the out_file path may hold before Merge: nothing, a directory, or
\* a regular file left by something else
OutFiles == {NoEntry, DirEntry} \cup {FileEntry(StaleData(n)) : n \in {1, MaxLen + 1}}

\* a caller that may leave options unset: it splits as in InitSplit, or
\* checks and merges a path that is absent or a regular file; out_file may
\* hold anything
InitAny ==
    /\ \/ InitSplit
       \/ /\ in_file = NoEntry
          /\ dirKind \in {"none", "file"}
          /\ dir = <<>>
          /\ caller = "idle"
          /\ split = NewSplit(0, 0)
    /\ out_file \in OutFiles
    /\ check = NewCheck
    /\ merge = NewMerge

\* as Next, for a caller that may leave options unset
NextAny ==
    \/ SplitStartAny
    \/ SplitLoop
    \/ CheckAny
    \/ MergeStartAny
    \/ MergeList
    \/ MergeCopy
    \/ MergeFlush

SpecAny == InitAny /\ [][NextAny]_vars

\* the caller checks a directory of other origin holding any names
InitCheck ==
    /\ in_file = NoEntry
    /\ dirKind = "dir"
    /\ dir \in AnyDirs
    /\ out_file = NoEntry
    /\ caller = "idle"
    /\ split = NewSplit(0, 0)
    /\ check = NewCheck
    /\ merge = NewMerge

SpecCheck == InitCheck /\ [][CheckAny]_vars

\* the caller merges a directory of other origin holding any names into
\* an out_file path that may hold anything, once or twice
InitMerge ==
    /\ in_file = NoEntry
    /\ dirKind = "dir"
    /\ dir \in AnyDirs
    /\ out_file \in OutFiles
    /\ caller = "idle"
    /\ split = NewSplit(0, 0)
    /\ check = NewCheck
    /\ merge = NewMerge

NextMerge ==
    \/ MergeStart
    \/ MergeList
    \/ MergeCopy
    \/ MergeFlush
    \/ MergeAgain

SpecMerge == InitMerge /\ [][NextMerge]_vars

(* ------------- Split into a directory that is not empty --------------- *)

\* what an output directory may hold before Split: the names "0".."k-1",
\* all subdirectories (n < 0) or all regular files of n bytes, and maybe
\* the file "x"
PriorDirs ==
    {[nm \in {to_string(i) : i \in 0..(k - 1)} \cup (IF x THEN {NameX} ELSE {}) |->
         IF nm = NameX THEN FileEntry(ChunkData(11, 1))
         ELSE IF n < 0 THEN DirEntry
         ELSE FileEntry(ChunkData(parse_usize(nm), n))] :
     k \in 0..(MaxOrd + 1), n \in -1..MaxFileLen, x \in BOOLEAN}

\* the caller splits a regular file into a directory that holds something
InitPrior ==
    /\ in_file \in {FileEntry(x) : x \in InputFiles}
    /\ dirKind = "dir"
    /\ dir \in PriorDirs
    /\ out_file = NoEntry
    /\ caller = "split"
    /\ \E cs \in 0..MaxChunk, cap \in 0..MaxCap : split = NewSplit(cs, cap)
    /\ check = NewCheck
    /\ merge = NewMerge

NextPrior ==
    \/ SplitStart
    \/ SplitLoop
    \/ SplitAbort
    \/ Check

SpecPrior == InitPrior /\ [][NextPrior]_vars

(* ------------- Check of files that cannot be read --------------------- *)

\* a directory in which every name "0".."MaxOrd" is absent, a subdirectory,
\* a regular file of one byte, or such a file that cannot be opened
\* (locked) or whose metadata cannot be read (hidden)
FaultDirs ==
    {[n \in {to_string(k) : k \in {j \in 0..MaxOrd : kind[j] # "none"}} |->
         IF kind[parse_usize(n)] = "dir" THEN DirEntry
         ELSE [kind |-> kind[parse_usize(n)],
               data |-> ChunkData(parse_usize(n), 1)]] :
     kind \in [0..MaxOrd -> {"none", "dir", "file", "locked", "hidden"}]}

\* the caller checks such a directory
InitFault ==
    /\ in_file = NoEntry
    /\ dirKind = "dir"
    /\ dir \in FaultDirs
    /\ out_file = NoEntry
    /\ caller = "idle"
    /\ split = NewSplit(0, 0)
    /\ check = NewCheck
    /\ merge = NewMerge

SpecFault == InitFault /\ [][Check]_vars

(* ------------- the asynchronous Merge of async_std -------------------- *)

NextAsync ==
    \/ MergeStartAsyncStd
    \/ MergeList
    \/ MergeCopy
    \/ MergeFlush

\* the caller merges a directory of other origin with run_async
SpecAsync == InitMerge /\ [][NextAsync]_vars

(* ------------- a Merge running next to a Split ------------------------ *)

InitConcurrent ==
    /\ InitSplit
    /\ out_file = NoEntry
    /\ check = NewCheck
    /\ merge = NewMerge

NextConcurrent ==
    \/ SplitStart
    \/ SplitLoop
    \/ MergeStartDuringSplit
    \/ MergeStart
    \/ MergeList
    \/ MergeCopy
    \/ MergeFlush

\* one process splits a file into a directory, another merges the
\* directory, during the Split or after it
SpecConcurrent == InitConcurrent /\ [][NextConcurrent]_vars

(* ------------- a Split stopped at any point --------------------------- *)

NextStopped ==
    \/ SplitStart
    \/ SplitLoop
    \/ SplitAbort

\* a Split into an empty directory, looked at between two passes of its
\* loop, inside a chunk write, and after its return
SpecStopped == InitConcurrent /\ [][NextStopped]_vars

(* ------------- a Split of a file that lies in out_dir ----------------- *)

\* the names in_file may have inside out_dir: a chunk name or another one
InsideNames == {to_string(k) : k \in 0..1} \cup {NameX}

\* the caller splits a file of out_dir into out_dir.  max_buffer_capacity
\* is at most 1, so that the reader never holds bytes read ahead and every
\* byte is read from the file at the moment it is stored in the buffer.
InitInside ==
    /\ \E nm \in InsideNames, x \in InputFiles, cs \in 0..MaxChunk, cap \in 0..1 :
          /\ in_file = FileEntry(x)
          /\ dir = Put(<<>>, nm, FileEntry(x))
          /\ split = [NewSplit(cs, cap) EXCEPT !.in_name = nm]
    /\ dirKind = "dir"
    /\ out_file = NoEntry
    /\ caller = "split"
    /\ check = NewCheck
    /\ merge = NewMerge

NextInside ==
    \/ SplitStart
    \/ SplitLoopInside

SpecInside == InitInside /\ [][NextInside]_vars

(* ------------- a Merge whose out_file is in_dir ----------------------- *)

\* the caller names one path, which holds a directory of any content, a
\* regular file or nothing, as in_dir and as out_file
InitOnto ==
    /\ in_file = NoEntry
    /\ \/ dirKind = "dir" /\ dir \in AnyDirs /\ out_file = DirEntry
       \/ dirKind = "file" /\ dir = <<>> /\ out_file = FileEntry(<<>>)
       \/ dirKind = "none" /\ dir = <<>> /\ out_file = NoEntry
    /\ caller = "idle"
    /\ split = NewSplit(0, 0)
    /\ check = NewCheck
    /\ merge = NewMerge

SpecOnto == InitOnto /\ [][MergeOntoInDir]_vars

(* ------------------------- checked properties ------------------------- *)

\* Split has returned a SplitResult
SplitOk == split.pc = "done" /\ split.result.ret = "Ok"

\* Check has returned a CheckResult
CheckOk == check.pc = "done" /\ check.result.ret = "Ok"

\* ceil(l / cs), the number of chunks of l bytes
NumChunks(l, cs) == (l + cs - 1) \div cs

\* bytes [i*cs, min((i+1)*cs, L)) of src
Slice(src, i, cs) == SubSeq(src, i * cs + 1, Min((i + 1) * cs, Len(src)))

\* the total length of the regular files named 0..n-1 in d
RECURSIVE ChunkBytes(_, _)
ChunkBytes(d, n) ==
    IF n = 0 THEN 0
    ELSE ChunkBytes(d, n - 1) + Len(Lookup(d, to_string(n - 1)).data)

\* the ordinals below n with no regular file of that name in d
AbsentOrdinals(d, n) == {i \in 0..(n - 1) : ~is_file(Lookup(d, to_string(i)))}

StrictlyAscending(m) == \A i \in 1..(Len(m) - 1) : m[i] < m[i + 1]

C2_SplitThenCheck ==
    (SplitOk /\ check.pc = "done"
        /\ check.file_size = split.result.file_size
        /\ check.total_chunks = split.result.total_chunks)
        => check.result = CheckResult(TRUE, NoCheckError)

\* C3: for an input of L bytes and chunk_size cs >= 1, Split into an empty
\* directory writes exactly the files 0..ceil(L/cs)-1, file i holding input
\* bytes [i*cs, min((i+1)*cs, L)): every chunk but the last has cs bytes,
\* the last has 1..cs bytes, and no empty chunk follows an exact multiple.
C3_ChunkLayout ==
    (SplitOk /\ split.chunk_size >= 1)
        => LET L == Len(in_file.data)
               cs == split.chunk_size
               N == NumChunks(L, cs)
           IN /\ DOMAIN dir = {to_string(i) : i \in 0..(N - 1)}
              /\ \A i \in 0..(N - 1) :
                    /\ dir[to_string(i)] = FileEntry(Slice(in_file.data, i, cs))
                    /\ i < N - 1 => Len(dir[to_string(i)].data) = cs
                    /\ i = N - 1 => Len(dir[to_string(i)].data) \in 1..cs

C3_Witness ==
    /\ SplitOk /\ split.chunk_size = 2 /\ Len(in_file.data) = 5
    /\ DOMAIN dir = {<<0>>, <<1>>, <<2>>}
    /\ Len(dir[<<0>>].data) = 2 /\ Len(dir[<<1>>].data) = 2 /\ Len(dir[<<2>>].data) = 1

\* C4: whenever Split returns a SplitResult, file_size is the sum of the
\* sizes of the chunk files 0..total_chunks-1 and total_chunks is the
\* number of chunk files written, whose ordinals are exactly
\* [0, total_chunks).
C4_ResultMatchesChunks ==
    SplitOk
        => /\ split.result.file_size = ChunkBytes(dir, split.result.total_chunks)
           /\ DOMAIN dir = {to_string(i) : i \in 0..(split.result.total_chunks - 1)}
           /\ \A n \in DOMAIN dir : is_file(dir[n])

\* C5: Split with chunk_size = 0 terminates and returns a failure, never a
\* SplitResult.
C5_ZeroChunkSizeFails ==
    (split.pc = "done" /\ split.chunk_size = 0) => split.result.ret = "Err"

\* C6: Split of a 0-byte input returns file_size = 0 and total_chunks = 0
\* and writes no chunk file, and Check on that directory with (0, 0)
\* returns success = true.
C6_EmptyInput ==
    (split.pc = "done" /\ in_file = FileEntry(<<>>) /\ dirKind = "dir")
        => /\ split.result = SplitResult(0, 0)
           /\ DOMAIN dir = {}
           /\ (check.pc = "done" /\ check.file_size = 0 /\ check.total_chunks = 0)
                 => check.result = CheckResult(TRUE, NoCheckError)

C6_Witness ==
    /\ SplitOk /\ in_file = FileEntry(<<>>)
    /\ check.pc = "done" /\ check.file_size = 0 /\ check.total_chunks = 0
    /\ check.result.success

\* C7: Check's verdict has a fixed precedence: a missing ordinal gives
\* success=false with kind Missing whatever the sizes; kind Size is given
\* only when nothing is missing and the summed size differs from
\* file_size; success=true exactly when nothing is missing and the sizes
\* agree.
C7_Precedence ==
    CheckOk
        => LET absent == AbsentOrdinals(dir, check.total_chunks)
               sum == ChunkBytes(dir, check.total_chunks)
               r == check.result
           IN /\ absent # {} => (~r.success /\ r.error.error_type = "Missing")
              /\ r.error.error_type = "Size" <=> (absent = {} /\ sum # check.file_size)
              /\ r.success <=> (absent = {} /\ sum = check.file_size)

\* a chunk is missing although the chunks present add up to file_size
C7_Witness ==
    /\ CheckOk /\ check.result.error.error_type = "Missing"
    /\ check.file_size > 0
    /\ ChunkBytes(dir, check.total_chunks) = check.file_size

\* C8: a Missing result lists, in ascending order, exactly the ordinals in
\* [0, total_chunks) with no regular file of that name, not only the first;
\* when the directory holds the chunks 0..n-1 and total_chunks = n + k, the
\* list is n, .., n+k-1.
C8_MissingList ==
    (CheckOk /\ check.result.error.error_type = "Missing")
        => LET m == check.result.error.missing
               absent == AbsentOrdinals(dir, check.total_chunks)
               n == Cardinality(DOMAIN dir)
           IN /\ as_code(check.result.error.error_type) = "missing"
              /\ check.result.error.missing_some
              /\ {m[i] : i \in 1..Len(m)} = absent
              /\ Len(m) = Cardinality(absent)
              /\ StrictlyAscending(m)
              /\ (RegularFiles(dir) = {to_string(i) : i \in 0..(n - 1)}
                    /\ check.total_chunks > n)
                   => m = [j \in 1..(check.total_chunks - n) |-> n + j - 1]

\* two ordinals are missing with a present chunk between them
C8_Witness ==
    /\ CheckOk
    /\ check.result.error.missing = <<0, 2>>
    /\ is_file(Lookup(dir, <<1>>))

\* C9: when every ordinal in [0, total_chunks) is a regular file and the
\* summed length differs from file_size, Check returns a normal result with
\* success=false, kind Size (code "size") and no missing list.
C9_SizeError ==
    (check.pc = "done" /\ dirKind = "dir"
        /\ AbsentOrdinals(dir, check.total_chunks) = {}
        /\ ChunkBytes(dir, check.total_chunks) # check.file_size)
        => /\ check.result.ret = "Ok"
           /\ ~check.result.success
           /\ check.result.error.some
           /\ check.result.error.error_type = "Size"
           /\ as_code(check.result.error.error_type) = "size"
           /\ ~check.result.error.missing_some

\* file_size is one more than the chunks of a Split hold
C9_Witness ==
    /\ SplitOk /\ split.result.total_chunks >= 2
    /\ CheckOk /\ check.total_chunks = split.result.total_chunks
    /\ check.file_size = split.result.file_size + 1
    /\ check.result.error.error_type = "Size"

\* C10: a CheckResult has an error if and only if success is false, and a
\* missing list only with kind Missing, the list then being non-empty and
\* strictly ascending.
C10_WellFormed ==
    CheckOk
        => LET r == check.result
           IN /\ r.error.some <=> ~r.success
              /\ r.error.missing_some
                   => /\ r.error.some
                      /\ r.error.error_type = "Missing"
                      /\ r.error.missing # <<>>
                      /\ StrictlyAscending(r.error.missing)
              /\ ~r.error.some => r.error = NoCheckError

C10_Witness ==
    /\ CheckOk /\ ~check.result.success
    /\ check.result.error.missing_some
    /\ Len(check.result.error.missing) >= 2

\* directory d without every entry that is not named "0".."total_chunks-1"
Restrict(d, total_chunks) ==
    [n \in (DOMAIN d) \cap {to_string(i) : i \in 0..(total_chunks - 1)} |-> d[n]]

\* every option of the Check call was set
CheckAllSet == check.in_dir_set /\ check.file_size_set /\ check.total_chunks_set

\* C11: the result of Check is the result it gives on the directory with
\* every entry other than "0".."total_chunks-1" taken away; so two
\* directories that agree on those names get the same CheckResult
C11_OnlyNamedFiles ==
    (check.pc = "done" /\ CheckAllSet) =>
        check.result = CheckRun(dirKind, Restrict(dir, check.total_chunks),
                                check.file_size, check.total_chunks)

\* C11 witness: a Check of total_chunks = 1 that succeeded on a directory
\* also holding the file "x", the subdirectory "1" and the file "2"
C11_Witness ==
    /\ CheckOk /\ check.result.success
    /\ check.total_chunks = 1
    /\ check.file_size > 0
    /\ is_file(Lookup(dir, NameX))
    /\ is_dir(Lookup(dir, to_string(1)))
    /\ is_file(Lookup(dir, to_string(2)))

\* Merge has returned Ok(true)
MergeOk == merge.pc = "done" /\ merge.result.ret = "Ok"

\* the sum of the byte lengths of the files of d named in S
RECURSIVE TotalLength(_, _)
TotalLength(d, S) ==
    IF S = {} THEN 0
    ELSE LET n == CHOOSE m \in S : TRUE
         IN Len(d[n].data) + TotalLength(d, S \ {n})

\* C12: when Merge has returned success, the length of out_file is the sum
\* of the lengths of all regular files of in_dir, whatever the
\* max_buffer_capacity and whichever file was sampled
C12_OutputLength ==
    MergeOk => /\ is_file(out_file)
               /\ Len(out_file.data) = TotalLength(dir, RegularFiles(dir))

\* the regular files of d whose name is a smaller number than that of n
Before(d, n) == {m \in RegularFiles(d) : parse_usize(m) < parse_usize(n)}

\* data is the contents of the regular files of d one after the other in
\* ascending numeric order of their names: each file lies, whole, right
\* behind the files of smaller number
IsConcatenation(data, d) ==
    /\ Len(data) = TotalLength(d, RegularFiles(d))
    /\ \A n \in RegularFiles(d) :
          LET off == TotalLength(d, Before(d, n))
          IN SubSeq(data, off + 1, off + Len(d[n].data)) = d[n].data

\* C13: when Merge has returned success, out_file is the concatenation of
\* the full contents of every regular file of in_dir in ascending numeric
\* order of the names ("10" after "2"), also when the ordinals have gaps
\* or do not start at 0
C13_NumericOrder ==
    MergeOk => is_file(out_file) /\ IsConcatenation(out_file.data, dir)

\* C14: a Merge of a directory without a regular file (empty, or holding
\* only subdirectories) returns a NotFound error at once and leaves the
\* out_file path as it was: nothing created, an existing out_file untouched
C14_NoRegularFile ==
    [][(/\ merge.pc = "new" /\ merge'.pc # "new"
        /\ merge'.in_dir_set /\ merge'.out_file_set
        /\ dirKind = "dir" /\ RegularFiles(dir) = {})
       => (/\ merge'.pc = "done"
           /\ merge'.result = MergeErr("NotFound")
           /\ out_file' = out_file)]_vars

\* C14 witness: Merge has returned NotFound on a directory holding only
\* subdirectories, and out_file still is the file that was there before
C14_Witness ==
    /\ merge.pc = "done" /\ merge.result = MergeErr("NotFound")
    /\ dirKind = "dir"
    /\ DOMAIN dir # {} /\ RegularFiles(dir) = {}
    /\ out_file = FileEntry(StaleData(1))

\* C15: when out_file existed at the start of a Merge that returned
\* success (as a regular file of any length or as a directory), out_file
\* is afterwards a regular file holding exactly the concatenated chunks,
\* so no byte of what it held; and a Merge repeated on the unchanged
\* in_dir leaves the out_file that the first one left
C15_FreshOutput ==
    (MergeOk /\ merge.existed) =>
        /\ is_file(out_file)
        /\ IsConcatenation(out_file.data, dir)
        /\ merge.runs = 2 => out_file.data = merge.prev

\* C16: a Split with both paths set classifies them so: in_file absent is
\* NotFound; in_file present but not a regular file is InvalidInput; with
\* a regular in_file, out_dir being a regular file is InvalidInput, and an
\* absent out_dir is created and Split goes on to read the input
C16_SplitPreconditions ==
    [][(/\ split.pc = "new" /\ split'.pc # "new"
        /\ split'.in_file_set /\ split'.out_dir_set)
       => (/\ ~exists(in_file) => split'.result = SplitErr("NotFound")
           /\ (exists(in_file) /\ ~is_file(in_file))
                 => split'.result = SplitErr("InvalidInput")
           /\ (is_file(in_file) /\ dirKind = "file")
                 => split'.result = SplitErr("InvalidInput")
           /\ (is_file(in_file) /\ dirKind = "none")
                 => (dirKind' = "dir" /\ split'.pc = "loop")
           /\ split'.pc = "done" => split'.result.ret = "Err")]_vars

\* C16 witness: a Split of a regular file returned InvalidInput because
\* out_dir is a regular file
C16_Witness ==
    /\ split.pc = "done" /\ split.result = SplitErr("InvalidInput")
    /\ split.in_file_set /\ split.out_dir_set
    /\ is_file(in_file) /\ in_file.data # <<>>
    /\ dirKind = "file"

\* the file system: everything a call could create, delete or write
fs == <<in_file, dirKind, dir, out_file>>

\* C17: a Split, Check or Merge with a required option unset or a path
\* precondition failed (in_file not a regular file, out_dir a regular
\* file, in_dir not a directory) returns an error in its first step and
\* that step leaves the file system as it was
C17_FailFast ==
    [][/\ (/\ split.pc = "new" /\ split'.pc # "new"
           /\ \/ ~split'.in_file_set \/ ~split'.out_dir_set
              \/ ~is_file(in_file) \/ dirKind = "file")
          => (/\ split'.pc = "done" /\ split'.result.ret = "Err"
              /\ UNCHANGED fs)
       /\ (/\ check.pc = "new" /\ check'.pc # "new"
           /\ \/ ~check'.in_dir_set \/ ~check'.file_size_set
              \/ ~check'.total_chunks_set \/ dirKind # "dir")
          => (/\ check'.pc = "done" /\ check'.result.ret = "Err"
              /\ UNCHANGED fs)
       /\ (/\ merge.pc = "new" /\ merge'.pc # "new"
           /\ \/ ~merge'.in_dir_set \/ ~merge'.out_file_set
              \/ dirKind # "dir")
          => (/\ merge'.pc = "done" /\ merge'.result.ret = "Err"
              /\ UNCHANGED fs)]_vars

\* C17 witness: a Split given an in_file that does not exist has returned
\* its error and the out_dir it was given still does not exist
C17_Witness ==
    /\ split.pc = "done" /\ split.result = SplitErr("NotFound")
    /\ split.in_file_set /\ split.out_dir_set
    /\ ~exists(in_file)
    /\ dirKind = "none"

\* C18: whatever the output directory held before, after a successful
\* Split every file i < total_chunks holds exactly the i-th slice of the
\* input, also when the file of that name was longer before
C18_ChunksReplaced ==
    SplitOk =>
        \A i \in 0..(split.result.total_chunks - 1) :
            Lookup(dir, to_string(i)) =
                FileEntry(Slice(in_file.data, i, split.chunk_size))

\* C18 witness: a Split into 1-byte chunks "0" and "1" has succeeded in a
\* directory that held 2-byte files "0", "1" and "2", of which "2" remains
C18_Witness ==
    /\ SplitOk /\ split.chunk_size = 1 /\ split.result.total_chunks = 2
    /\ in_file.data = Ramp(2)
    /\ Lookup(dir, to_string(0)) = FileEntry(<<1>>)
    /\ Lookup(dir, to_string(1)) = FileEntry(<<2>>)
    /\ Lookup(dir, to_string(2)) = FileEntry(ChunkData(2, 2))

\* the Split was terminated while chunk bytes were still to be written:
\* it had completed fewer chunk files than it would have in the end
SplitCutShort ==
    /\ split.pc = "aborted"
    /\ split.total_chunks <
           SplitReturns(Len(in_file.data), split.chunk_size).total_chunks

\* the Check run after that, with the file_size and total_chunks the
\* completed Split would have returned, has found the chunk set wanting
CheckRefuses ==
    /\ CheckOk
    /\ ~check.result.success
    /\ check.result.error.error_type \in {"Missing", "Size"}

\* the chunk names the terminated Split would still have written and has
\* not touched
Untouched ==
    (split.total_chunks + (IF split.writing THEN 1 ELSE 0))
        ..(SplitReturns(Len(in_file.data), split.chunk_size).total_chunks - 1)

\* C19 (as stated): for every content the output directory had before, a
\* Check with the values the completed Split would have returned, run
\* after a Split that was terminated before all chunk bytes were written,
\* yields success = false with kind Missing or Size
C19_AbortDetected ==
    (SplitCutShort /\ check.pc = "done") => CheckRefuses

\* C19 (amended): the same for an output directory that held no regular
\* file under a chunk name the Split would write.  The files the Split
\* has rewritten no longer matter, so the condition is put on the names
\* it has not touched, which hold what they held before.
C19_AbortDetectedFresh ==
    (/\ SplitCutShort /\ check.pc = "done"
     /\ \A i \in Untouched : ~is_file(Lookup(dir, to_string(i))))
        => CheckRefuses

\* C19 witness: a Split of 4 bytes into 2-byte chunks was terminated while
\* writing its last chunk "1", left with 1 byte; Check(4, 2) reported a
\* size error
C19_Witness ==
    /\ SplitCutShort /\ split.writing
    /\ split.chunk_size = 2 /\ in_file.data = Ramp(4)
    /\ split.total_chunks = 1
    /\ Lookup(dir, to_string(1)) = FileEntry(<<3>>)
    /\ check.pc = "done"
    /\ check.file_size = 4 /\ check.total_chunks = 2
    /\ check.result = CheckResult(FALSE, SizeError)

\* C20: a Merge of a directory that holds a regular file whose name does
\* not parse as an unsigned integer ends in failure, never in success
C20_NonNumericAborts ==
    (/\ merge.pc = "done"
     /\ dirKind = "dir"
     /\ \E n \in RegularFiles(dir) : parse_usize(n) < 0)
        => merge.result.ret # "Ok"

\* the ordinals below n whose file exists but cannot be opened or stat'ed
Unreadable(d, n) ==
    {i \in 0..(n - 1) : Lookup(d, to_string(i)).kind \in {"locked", "hidden"}}

\* the ordinals below n under which there is no regular file at all
Absent(d, n) ==
    {i \in 0..(n - 1) : Lookup(d, to_string(i)).kind \in {"none", "dir"}}

\* C21: in Check an absent chunk is never an operational error, it is put
\* on the missing list and the scan goes on to total_chunks-1, so the
\* result is a CheckResult with success = false; but a chunk file that
\* exists and cannot be opened or stat'ed makes Check return an
\* operational error and no CheckResult
C21_AbsentOrError ==
    (check.pc = "done" /\ CheckAllSet /\ dirKind = "dir") =>
        IF Unreadable(dir, check.total_chunks) # {}
        THEN check.result.ret = "Err"
        ELSE /\ check.result.ret = "Ok"
             /\ Absent(dir, check.total_chunks) # {} =>
                   /\ ~check.result.success
                   /\ check.result.error.error_type = "Missing"
                   /\ Len(check.result.error.missing) =
                         Cardinality(Absent(dir, check.total_chunks))
                   /\ \A k \in 1..Len(check.result.error.missing) :
                         check.result.error.missing[k] \in
                            Absent(dir, check.total_chunks)

\* C22: the asynchronous Merge returns what the synchronous Merge returns
\* on the same directory and options: it fails before the writer exactly
\* when the checks of the synchronous run fail, with the same error kind,
\* also for an in_dir that holds subdirectories next to chunk files
C22_AsyncEquivalent ==
    (merge.pc = "done" /\ merge.in_dir_set /\ merge.out_file_set) =>
        LET p == MergePaths(dirKind, dir, out_file, TRUE, TRUE)
        IN IF p.err # ""
           THEN merge.result = MergeErr(p.err)
           ELSE merge.result.ret # "Err"

\* C23: a Merge entered after Split has returned gives an output file
\* identical to Split's input, while a Merge entered during the Split can
\* return success with a different output file: a successful Merge
\* (chunk_size >= 1, max_buffer_capacity >= 1) whose output differs from
\* the input overlapped the Split
C23_SequentialIdentical ==
    (MergeOk /\ split.pc \in {"loop", "done"} /\ split.chunk_size >= 1
        /\ merge.cap_max >= 1 /\ out_file # FileEntry(in_file.data))
        => merge.overlap

\* the inconsistent state: Split has returned its result, the Merge that
\* ran next to it has returned success, and out_file is not the input
C23_Witness ==
    /\ MergeOk /\ merge.overlap /\ merge.cap_max >= 1
    /\ SplitOk /\ split.chunk_size >= 1
    /\ out_file # FileEntry(in_file.data)

\* C24: what Split writes depends on the input and chunk_size only, not on
\* the lengths the reads return nor on max_buffer_capacity: at every point
\* of a Split (chunk_size >= 1) into an empty directory the chunk files
\* written are 0..total_chunks-1, file i holds input bytes
\* [i*cs, (i+1)*cs), the accumulation buffer holds the next `current`
\* input bytes, and the Split returns total_chunks = ceil(L / cs)
C24_ReadIndependent ==
    (split.pc \in {"loop", "done"} /\ split.chunk_size >= 1
        /\ (split.pc = "done" => split.result.ret = "Ok"))
        => LET cs == split.chunk_size
               n == split.total_chunks
               src == in_file.data
           IN /\ DOMAIN dir = {to_string(i) : i \in 0..(n - 1)}
              /\ \A i \in 0..(n - 1) :
                    dir[to_string(i)] = FileEntry(Slice(src, i, cs))
              /\ split.pc = "loop" =>
                    /\ split.reader.pos - split.reader.fill = n * cs + split.current
                    /\ SubSeq(split.buffer, 1, split.current)
                          = SubSeq(src, n * cs + 1, n * cs + split.current)
              /\ split.pc = "done" =>
                    /\ n = NumChunks(Len(src), cs)
                    /\ split.result = SplitResult(Len(src), n)

\* a read came back short across a chunk boundary: a chunk is written,
\* the buffer is partly filled and input remains
C24_Witness ==
    /\ split.pc = "loop" /\ split.total_chunks >= 1
    /\ 0 < split.current /\ split.current < split.chunk_size - 1
    /\ split.reader.pos - split.reader.fill < Len(in_file.data)
    /\ in_file.data = Ramp(MaxLen)
    /\ split.cap_max >= 1

\* b is a prefix of a and shorter than a
ProperPrefix(b, a) == Len(b) < Len(a) /\ b = SubSeq(a, 1, Len(b))

\* C25: at every point of a Split (chunk_size >= 1) into an initially
\* empty directory the files present are the ordinals 0..k-1 with
\* k <= ceil(L / cs); every file but the one being written is complete, so
\* chunk i is written, flushed and closed before chunk i+1 is created, and
\* only the file of the highest ordinal can be open for writing
C25_ChunksInOrder ==
    (split.pc \in {"loop", "aborted", "done"} /\ split.chunk_size >= 1
        /\ (split.pc = "done" => split.result.ret = "Ok"))
        => LET cs == split.chunk_size
               n == split.total_chunks
               src == in_file.data
               k == IF split.writing THEN n + 1 ELSE n
           IN /\ k <= NumChunks(Len(src), cs)
              /\ DOMAIN dir = {to_string(i) : i \in 0..(k - 1)}
              /\ \A i \in 0..(n - 1) :
                    dir[to_string(i)] = FileEntry(Slice(src, i, cs))
              /\ split.writing =>
                    /\ is_file(dir[to_string(n)])
                    /\ ProperPrefix(dir[to_string(n)].data, Slice(src, n, cs))
              /\ split.pc = "done" => k = NumChunks(Len(src), cs)

\* the Split is inside the write of its second chunk: file 0 is complete
\* and file 1 holds a part of its bytes
C25_Witness ==
    /\ split.pc = "aborted" /\ split.writing
    /\ split.total_chunks = 1 /\ split.chunk_size = 2
    /\ dir[to_string(0)] = FileEntry(Slice(in_file.data, 0, 2))
    /\ Len(dir[to_string(1)].data) = 1
    /\ Len(in_file.data) >= 4

\* the offset in the input up to which Split has taken bytes from reader
Consumed(s) == s.reader.pos - s.reader.fill

\* C26: in Split's loop with chunk_size >= 1, before every read
\* 0 <= current < chunk_size and after it current <= chunk_size; a chunk
\* is written in the read branch only with current = chunk_size, leaving
\* nothing to carry over (current is 0 afterwards), and a read of 0 bytes
\* happens only at the end of the input
C26_LoopInvariant ==
    [][(split.pc = "loop" /\ split.chunk_size >= 1) =>
          LET read == Consumed(split') - Consumed(split)
          IN /\ 0 <= split.current /\ split.current < split.chunk_size
             /\ read <= split.chunk_size - split.current
             /\ (split'.pc = "loop" /\ read > 0) =>
                   IF split'.total_chunks = split.total_chunks
                   THEN split'.current = split.current + read
                   ELSE /\ split.current + read = split.chunk_size
                        /\ split'.current = 0
             /\ (split'.pc = "done" /\ split'.result.ret = "Ok") =>
                   /\ read = 0
                   /\ Consumed(split) = Len(in_file.data)]_vars

\* the chunk-write branch has been taken after a read that filled the
\* buffer from a part-filled state, and input remains
C26_Witness ==
    /\ split.pc = "loop" /\ split.chunk_size = MaxChunk
    /\ split.total_chunks = 1 /\ split.current = 0
    /\ Consumed(split) < Len(in_file.data)
    /\ split.cap_max = 1

\* C27: a step of Split changes no entry of out_dir but the chunk file it
\* writes, named by the ordinal total_chunks, so that when Split returns
\* only files 0..total_chunks-1 were created or overwritten and files of
\* higher ordinal are as they were; and it never changes the input file
C27_SplitFrame ==
    [][split.pc \in {"new", "loop"} =>
          /\ in_file' = in_file
          /\ \A n \in (DOMAIN dir) \cup (DOMAIN dir') :
                Lookup(dir', n) # Lookup(dir, n) =>
                    /\ n = to_string(split.total_chunks)
                    /\ split'.total_chunks = split.total_chunks + 1]_vars

\* C28: when Check has returned success = true for a directory, a Merge
\* of that directory returns success and its output file has exactly
\* file_size bytes
C28_CheckGuardsMerge ==
    (CheckOk /\ CheckAllSet /\ check.result.success /\ merge.pc = "done")
        => /\ MergeOk
           /\ is_file(out_file)
           /\ Len(out_file.data) = check.file_size

\* C29: no step of Merge deletes or modifies a regular file of in_dir,
\* whatever path out_file is, in_dir itself included, and whether Merge
\* succeeds or fails
C29_ChunksKept ==
    [][\A n \in DOMAIN dir :
          is_file(dir[n]) => Lookup(dir', n) = dir[n]]_vars

\* C30: the file names are parsed after out_file was removed and created
\* anew: a Merge that has aborted on a name that is not a number leaves
\* out_file an empty regular file, whatever the path held before, and it
\* aborted in the listing step, before any byte was copied
C30_AbortLeavesEmptyOutput ==
    (merge.pc = "done" /\ merge.result.ret = "Panic")
        => /\ out_file = FileEntry(<<>>)
           /\ merge.entries = <<>>
           /\ \E n \in RegularFiles(dir) : parse_usize(n) < 0

\* a first Merge into a path that held something has aborted on the
\* name "x"
C30_Witness ==
    /\ merge.pc = "done" /\ merge.result.ret = "Panic"
    /\ merge.existed /\ merge.runs = 1
    /\ is_file(Lookup(dir, NameX))
    /\ out_file = FileEntry(<<>>)
====
